---- MODULE Spec2Model ----
(***************************************************************************)
(* A model of the PRtester repository:                                     *)
(*   - src/solution.py          FastAPI backend (upload, generate)         *)
(*   - src/streamlit_frontend.py  the Streamlit client of that backend     *)
(*   - src/array_products.py    Flask contractor / timesheet service       *)
(*   - calculate_products (exclusive_products), specified in spec.md       *)
(*                                                                         *)
(* Specifications:                                                         *)
(*   Spec       the backend: uploads, one /generate pipeline in flight,    *)
(*              process restarts                                           *)
(*   SpecFront  the frontend's Generate button driving that backend        *)
(*   SpecFence  analyze_job_description applied to bounded LLM replies     *)
(*   SpecProd   exclusive_products applied to bounded integer sequences    *)
(*   SpecCon    the contractor service under sequences of requests         *)
(*   SpecApply  /apply requests of the contractor service, interleaved     *)
(***************************************************************************)
EXTENDS Integers, Sequences, FiniteSets, Bags, TLC

\* ------------------------------------------------------------------ bounds

\* uuid4 draws over the whole run (file ids are modelled as 1..MaxIds, each fresh)
MaxIds == 2
\* files in one /upload-resume request
MaxFiles == 2
\* process restarts of the backend
MaxRestarts == 1
\* longest run of whitespace around a fence or a JSON object in an LLM reply
MaxWs == 1
\* longest input of exclusive_products, and the largest magnitude of an element
MaxLen == 3
MaxAbs == 2
\* rows the contractor service may hold
MaxContractors == 2
MaxTimesheets == 2
\* /apply requests the contractor service handles at the same time
MaxInflight == 2

None == "None"

\* ------------------------------------------------------- sequences, strings

\* Python strings are modelled as sequences of one-character strings.
RECURSIVE Reverse(_)
Reverse(s) == IF s = <<>> THEN <<>> ELSE Append(Reverse(Tail(s)), Head(s))

IsPrefix(p, s) == Len(p) <= Len(s) /\ SubSeq(s, 1, Len(p)) = p

IsSuffix(p, s) == Len(p) <= Len(s) /\ SubSeq(s, Len(s) - Len(p) + 1, Len(s)) = p

Whitespace == {" ", "\n"}

\* str.lstrip() / str.rstrip() / str.strip()
RECURSIVE LStrip(_)
LStrip(s) == IF s # <<>> /\ Head(s) \in Whitespace THEN LStrip(Tail(s)) ELSE s

Strip(s) == Reverse(LStrip(Reverse(LStrip(s))))

\* str.removeprefix(p) / str.removesuffix(p)
RemovePrefix(s, p) == IF IsPrefix(p, s) THEN SubSeq(s, Len(p) + 1, Len(s)) ELSE s

RemoveSuffix(s, p) == IF IsSuffix(p, s) THEN SubSeq(s, 1, Len(s) - Len(p)) ELSE s

\* the backtick character, named: TLA+ string literals cannot hold one
BackTick == "BACKTICK"

Fence == <<BackTick, BackTick, BackTick>>

FenceJson == Fence \o <<"j", "s", "o", "n">>


\* ---------------------------------------------------------------- state

VARIABLES
  \* ---- src/solution.py (backend process and its disk)
  file_storage,   \* the in-memory dict file id -> upload path
  upload_dir,     \* files on disk under uploads/
  output_dir,     \* files on disk under outputs/
  uuid_count,     \* uuid4 values drawn so far (ids are 1..uuid_count)
  restarts,       \* process restarts so far
  up_resp,        \* the last /upload-resume exchange: request files, status, file_ids
  issued,         \* history: file id -> path, for every id an upload response returned
  live,           \* history: the ids returned since the last restart
  gen,            \* the /generate request in flight (a record, see GenIdle)
  \* ---- src/streamlit_frontend.py
  fe,             \* the Generate-button run (a record, see FeIdle)
  \* ---- analyze_job_description as a function of the LLM reply
  reply,          \* the LLM reply under analysis: its text, and the parts it was built from
  analyzed,       \* the outcome of analyze_job_description on it
  \* ---- exclusive_products
  nums,           \* the input sequence
  result,         \* the output, once the function has been called
  \* ---- src/array_products.py (database rows, socket events, last exchange)
  contractors,    \* contractor id -> row
  bosses,         \* e-mail addresses of the rows of table bosses
  timesheets,     \* the rows of table timesheets, in insertion order
  events,         \* the socket events emitted (a bag: how often each was emitted)
  last,           \* the last request handled and its status
  inflight        \* the /apply requests being handled: slot -> request record

varsBackend == <<file_storage, upload_dir, output_dir, uuid_count, restarts, up_resp,
                 issued, live, gen, fe>>

varsFence == <<reply, analyzed>>

varsProd == <<nums, result>>

varsCon == <<contractors, bosses, timesheets, events, last, inflight>>

vars == <<varsBackend, varsFence, varsProd, varsCon>>

\* ------------------------------------------------ exceptions (solution.py)

HTTPException(code) == [kind |-> "HTTPException", status |-> code]

PyException == [kind |-> "Exception", status |-> 0]

\* ---------------------------------- analyze_job_description (solution.py)

\* The content of a JSON object is abstracted to one token: "a" and "b" are two
\* contents that satisfy the JobDescription schema, "x" is one that does not.
\* Everything around the content (braces, whitespace, fences) is kept as text.
ValidContents == {"a", "b"}

Contents == ValidContents \cup {"x"}

\* json.loads: surrounding whitespace is allowed, a top-level object is
\* "{" ws content ws "}"; anything else is a JSONDecodeError.
JsonLoads(s) ==
  LET t == Strip(s)
  IN  IF Len(t) >= 2 /\ t[1] = "{" /\ t[Len(t)] = "}"
      THEN LET inner == Strip(SubSeq(t, 2, Len(t) - 1))
           IN  IF inner = <<>> THEN [ok |-> TRUE, value |-> "empty"]
               ELSE IF Len(inner) = 1 /\ inner[1] \in Contents
                    THEN [ok |-> TRUE, value |-> inner[1]]
                    ELSE [ok |-> FALSE, value |-> None]
      ELSE [ok |-> FALSE, value |-> None]

\* JobDescription.model_validate: the JobDescription is named by its content
ModelValidate(v) ==
  IF v \in ValidContents THEN [ok |-> TRUE, jd |-> v]
  ELSE [ok |-> FALSE, jd |-> None]

\* a wrong order of the two removeprefix calls
CleanedSwapped(response_text) ==
  Strip(RemoveSuffix(RemovePrefix(RemovePrefix(response_text, Fence), FenceJson), Fence))

\* cleaned = response_text.removeprefix("```json").removeprefix("```")
\*                        .removesuffix("```").strip()
Cleaned(response_text) ==
  Strip(RemoveSuffix(RemovePrefix(RemovePrefix(response_text, FenceJson), Fence), Fence))

\* analyze_job_description after llm.invoke returned `content`: the
\* JobDescription, or the exception raised.
AnalyzeReply(content) ==
  LET response_text == Strip(content)
      cleaned == Cleaned(response_text)
      parsed == JsonLoads(cleaned)
      jd == ModelValidate(parsed.value)
  IN  IF cleaned = <<>> THEN [ok |-> FALSE, exc |-> HTTPException(500), jd |-> None]
      ELSE IF ~parsed.ok THEN [ok |-> FALSE, exc |-> HTTPException(500), jd |-> None]
      ELSE IF ~jd.ok THEN [ok |-> FALSE, exc |-> HTTPException(500), jd |-> None]
      ELSE [ok |-> TRUE, exc |-> None, jd |-> jd.jd]

\* analyze_job_description: llm is [raised |-> BOOLEAN, content |-> text]
analyze_job_description(llm) ==
  IF llm.raised THEN [ok |-> FALSE, exc |-> HTTPException(500), jd |-> None]
  ELSE AnalyzeReply(llm.content)


\* ------------------------------------------------- /upload-resume (solution.py)

Exts == {".pdf", ".docx"}

EmptyStorage == [x \in {} |-> None]

\* path = os.path.join(UPLOAD_DIR, file_id + ext)
UploadPath(file_id, ext) == <<"uploads", file_id, ext>>

\* a store that forgets the entry
StoreUploadDropped(fs, file_id, path) == fs

\* file_storage[file_id] = path
StoreUpload(fs, file_id, path) ==
  [x \in DOMAIN fs \cup {file_id} |-> IF x = file_id THEN path ELSE fs[x]]

\* the loop of upload_resume over the first n files; the k-th file of the
\* request gets the id base + k
RECURSIVE StoredAfter(_, _, _, _)
StoredAfter(fs, files, base, n) ==
  IF n = 0 THEN fs
  ELSE StoreUpload(StoredAfter(fs, files, base, n - 1), base + n,
                   UploadPath(base + n, files[n]))

FileSeqs == UNION {[1..n -> Exts] : n \in 1..MaxFiles}

\* One /upload-resume request. failAt = 0: every file is read and written;
\* failAt = k: reading or writing the k-th file raises, the files before it
\* stay stored and the response is 500 with no file_ids.
UploadEffect(files, failAt) ==
  LET n == IF failAt = 0 THEN Len(files) ELSE failAt - 1
      drawn == IF failAt = 0 THEN Len(files) ELSE failAt
      ids == [k \in 1..n |-> uuid_count + k]
      ok == failAt = 0
  IN  /\ uuid_count + drawn <= MaxIds
      /\ file_storage' = StoredAfter(file_storage, files, uuid_count, n)
      /\ upload_dir' = upload_dir \cup {UploadPath(ids[k], files[k]) : k \in 1..n}
      /\ uuid_count' = uuid_count + drawn
      /\ up_resp' = [files |-> files, status |-> IF ok THEN 200 ELSE 500,
                     file_ids |-> IF ok THEN ids ELSE <<>>]
      /\ issued' = IF ok
                   THEN [x \in DOMAIN issued \cup {ids[k] : k \in 1..n} |->
                           IF x \in DOMAIN issued THEN issued[x]
                           ELSE UploadPath(x, files[x - uuid_count])]
                   ELSE issued
      /\ live' = IF ok THEN live \cup {ids[k] : k \in 1..n} ELSE live

\* POST /upload-resume from any client
upload_resume ==
  \E files \in FileSeqs, failAt \in 0..MaxFiles :
    /\ failAt <= Len(files)
    /\ UploadEffect(files, failAt)
    /\ UNCHANGED <<output_dir, restarts, gen, fe>>
    /\ UNCHANGED <<varsFence, varsProd, varsCon>>

\* ------------------------------------------------------ /generate (solution.py)

StepOrder == <<"lookup", "read", "parser", "llm_resume", "llm_jd", "llm_latex",
               "pdflatex", "llm_cover", "write_cover">>

GenIdle == [pc |-> "idle", id |-> 0, client |-> None, steps |-> <<>>, failed |-> None,
            status |-> 0, body |-> EmptyStorage, written |-> {}, jd |-> None]

\* a handler whose statements run pdflatex after the cover letter
NextStepSwapped(step) ==
  CASE step = "lookup" -> "read"
    [] step = "read" -> "parser"
    [] step = "parser" -> "llm_resume"
    [] step = "llm_resume" -> "llm_jd"
    [] step = "llm_jd" -> "llm_latex"
    [] step = "llm_latex" -> "llm_cover"
    [] step = "llm_cover" -> "pdflatex"
    [] step = "pdflatex" -> "write_cover"
    [] step = "write_cover" -> "return"

\* the statement order of generate_resume_and_cover_letter (and of
\* parse_resume_with_llama inside it)
NextStep(step) ==
  CASE step = "lookup" -> "read"
    [] step = "read" -> "parser"
    [] step = "parser" -> "llm_resume"
    [] step = "llm_resume" -> "llm_jd"
    [] step = "llm_jd" -> "llm_latex"
    [] step = "llm_latex" -> "pdflatex"
    [] step = "pdflatex" -> "llm_cover"
    [] step = "llm_cover" -> "write_cover"
    [] step = "write_cover" -> "return"

\* a handler without the `except HTTPException: raise` clause
GenerateExceptAll(exc) == 500

\* except HTTPException: raise / except Exception: raise HTTPException(500)
GenerateExcept(exc) == IF exc.kind = "HTTPException" THEN exc.status ELSE 500

\* parse_resume_with_llama: except Exception as e: raise HTTPException(500)
ParseResumeExcept(exc) == HTTPException(500)

\* the step runs and returns
StepOk(step) ==
  [gen EXCEPT !.pc = NextStep(step), !.steps = Append(gen.steps, step)]

\* the step runs and raises exc, which reaches the handler's except clauses
StepRaise(step, exc) ==
  [gen EXCEPT !.pc = "done", !.steps = Append(gen.steps, step), !.failed = step,
              !.status = GenerateExcept(exc)]

GenUnchanged ==
  /\ UNCHANGED <<file_storage, upload_dir, uuid_count, restarts, up_resp, issued, live, fe>>
  /\ UNCHANGED <<varsFence, varsProd, varsCon>>

\* A client other than the frontend posts /generate. The id is one that a
\* uuid4 draw has produced (returned or not, before a restart or after it),
\* or 0, which no draw produces.
GenStart ==
  /\ gen.pc = "idle"
  /\ \E id \in 0..uuid_count :
       gen' = [GenIdle EXCEPT !.pc = "lookup", !.id = id, !.client = "api"]
  /\ UNCHANGED output_dir
  /\ GenUnchanged

\* if resume_file_id not in file_storage: raise HTTPException(404)
GenLookup ==
  /\ gen.pc = "lookup"
  /\ gen' = IF gen.id \in DOMAIN file_storage THEN StepOk("lookup")
            ELSE StepRaise("lookup", HTTPException(404))
  /\ UNCHANGED output_dir
  /\ GenUnchanged

\* with open(resume_path, 'rb') as f: data = f.read()
GenRead ==
  /\ gen.pc = "read"
  /\ \/ /\ file_storage[gen.id] \in upload_dir
        /\ gen' = StepOk("read")
     \/ gen' = StepRaise("read", PyException)
  /\ UNCHANGED output_dir
  /\ GenUnchanged

\* parse_resume_with_llama: parser.parse on a temporary copy
GenParser ==
  /\ gen.pc = "parser"
  /\ \/ gen' = StepOk("parser")
     \/ gen' = StepRaise("parser", ParseResumeExcept(PyException))
  /\ UNCHANGED output_dir
  /\ GenUnchanged

\* extract_resume_data_from_md: llm.invoke, then ResumeData.model_validate_json
GenLlmResume ==
  /\ gen.pc = "llm_resume"
  /\ \/ gen' = StepOk("llm_resume")
     \/ gen' = StepRaise("llm_resume", ParseResumeExcept(HTTPException(500)))
     \/ gen' = StepRaise("llm_resume", ParseResumeExcept(PyException))
  /\ UNCHANGED output_dir
  /\ GenUnchanged

\* LLM replies the pipeline is run with: a bare object, a fenced one, an
\* empty reply, an object that fails the schema, text that is no JSON
SampleReplies ==
  { <<"{", "a", "}">>,
    FenceJson \o <<"\n", "{", "b", "}", "\n">> \o Fence,
    <<>>,
    <<"{", "x", "}">>,
    <<"a">> }

\* analyze_job_description(job_description)
GenLlmJd ==
  /\ gen.pc = "llm_jd"
  /\ \E llm \in [raised : {TRUE}, content : {<<>>}]
               \cup [raised : {FALSE}, content : SampleReplies] :
       LET r == analyze_job_description(llm)
       IN  gen' = IF r.ok THEN [StepOk("llm_jd") EXCEPT !.jd = r.jd]
                  ELSE StepRaise("llm_jd", r.exc)
  /\ UNCHANGED output_dir
  /\ GenUnchanged

\* generate_tailored_resume_latex: llm.invoke
GenLlmLatex ==
  /\ gen.pc = "llm_latex"
  /\ \/ gen' = StepOk("llm_latex")
     \/ gen' = StepRaise("llm_latex", PyException)
  /\ UNCHANGED output_dir
  /\ GenUnchanged

\* compile_latex_to_pdf: write the .tex file, run pdflatex with check=True
GenCompile ==
  /\ gen.pc = "pdflatex"
  /\ \/ /\ gen' = [StepOk("pdflatex") EXCEPT !.written = @ \cup {"resume.tex", "resume.pdf"}]
        /\ output_dir' = output_dir \cup {"resume.tex", "resume.pdf"}
     \/ /\ gen' = [StepRaise("pdflatex", PyException) EXCEPT !.written = @ \cup {"resume.tex"}]
        /\ output_dir' = output_dir \cup {"resume.tex"}
  /\ GenUnchanged

\* generate_cover_letter: llm.invoke
GenLlmCover ==
  /\ gen.pc = "llm_cover"
  /\ \/ gen' = StepOk("llm_cover")
     \/ gen' = StepRaise("llm_cover", PyException)
  /\ UNCHANGED output_dir
  /\ GenUnchanged

\* with open(cover_path_out, 'w') as f: f.write(cover_md)
GenWriteCover ==
  /\ gen.pc = "write_cover"
  /\ \/ /\ gen' = [StepOk("write_cover") EXCEPT !.written = @ \cup {"cover_letter.md"}]
        /\ output_dir' = output_dir \cup {"cover_letter.md"}
     \/ /\ gen' = StepRaise("write_cover", PyException)
        /\ UNCHANGED output_dir
  /\ GenUnchanged

\* the response body of a successful /generate
GenerateBody ==
  [k \in {"resume_pdf_download_url", "cover_letter_download_url"} |->
     IF k = "resume_pdf_download_url" THEN "resume.pdf" ELSE "cover_letter.md"]

\* return {...}
GenReturn ==
  /\ gen.pc = "return"
  /\ gen' = [gen EXCEPT !.pc = "done", !.status = 200, !.body = GenerateBody]
  /\ UNCHANGED output_dir
  /\ GenUnchanged

\* the api client has its response; the next request may start
GenFinish ==
  /\ gen.pc = "done"
  /\ gen.client = "api"
  /\ gen' = GenIdle
  /\ UNCHANGED output_dir
  /\ GenUnchanged


\* ------------------------------------------------------- process restart

\* The backend process stops and starts again: module-level state is
\* rebuilt (file_storage = {}), the request in flight is lost, the disk stays.
Restart ==
  /\ restarts < MaxRestarts
  /\ restarts' = restarts + 1
  /\ file_storage' = EmptyStorage
  /\ live' = {}
  /\ gen' = GenIdle
  /\ fe' = IF fe.pc = "generating"
           THEN [fe EXCEPT !.pc = "stopped", !.error = "Generation failed"]
           ELSE fe
  /\ UNCHANGED <<upload_dir, output_dir, uuid_count, up_resp, issued>>
  /\ UNCHANGED <<varsFence, varsProd, varsCon>>

\* ------------------------------------------ streamlit_frontend.py (Generate)

FeIdle == [pc |-> "idle", file_id |-> 0, shown |-> {}, code |-> {}, error |-> None]

\* dict.get(key): the value, or None when the key is missing
DictGet(d, key) == IF key \in DOMAIN d THEN d[key] ELSE None

\* GET /download-resume and GET /download-cover-letter: 200 when the file
\* exists under outputs/, 404 otherwise
DownloadStatus(file) == IF file \in output_dir THEN 200 ELSE 404

\* the button is pressed with no file or no job description
FrontendReject ==
  /\ fe.pc = "idle"
  /\ \E msg \in {"Please upload a resume file.", "Please enter a job description."} :
       fe' = [FeIdle EXCEPT !.pc = "stopped", !.error = msg]
  /\ UNCHANGED <<file_storage, upload_dir, output_dir, uuid_count, restarts, up_resp,
                 issued, live, gen>>
  /\ UNCHANGED <<varsFence, varsProd, varsCon>>

\* the button is pressed with both inputs: POST /upload-resume with one file
FrontendUpload ==
  /\ fe.pc = "idle"
  /\ \E ext \in Exts, failAt \in 0..1 :
       /\ UploadEffect(<<ext>>, failAt)
       /\ fe' = IF up_resp'.status # 200
                THEN [FeIdle EXCEPT !.pc = "stopped", !.error = "Upload failed"]
                ELSE IF up_resp'.file_ids = <<>>
                THEN [FeIdle EXCEPT !.pc = "stopped",
                                    !.error = "No file ID returned from upload."]
                ELSE [FeIdle EXCEPT !.pc = "uploaded", !.file_id = up_resp'.file_ids[1]]
  /\ UNCHANGED <<output_dir, restarts, gen>>
  /\ UNCHANGED <<varsFence, varsProd, varsCon>>

\* POST /generate with the uploaded file's id
FrontendGenerate ==
  /\ fe.pc = "uploaded"
  /\ gen.pc = "idle"
  /\ gen' = [GenIdle EXCEPT !.pc = "lookup", !.id = fe.file_id, !.client = "frontend"]
  /\ fe' = [fe EXCEPT !.pc = "generating"]
  /\ UNCHANGED <<file_storage, upload_dir, output_dir, uuid_count, restarts, up_resp,
                 issued, live>>
  /\ UNCHANGED <<varsFence, varsProd, varsCon>>

\* the sections the script shows for a /generate result
DisplayResults(res) ==
  LET resume_url == DictGet(res, "resume_download_url")
      cover_url == DictGet(res, "cover_letter_download_url")
  IN  [shown |-> (IF resume_url # None THEN {"### Generated Resume"} ELSE {})
                 \cup (IF cover_url # None THEN {"### Generated Cover Letter"} ELSE {}),
       code |-> (IF resume_url # None /\ DownloadStatus(resume_url) = 200
                 THEN {resume_url} ELSE {})
                \cup (IF cover_url # None /\ DownloadStatus(cover_url) = 200
                      THEN {cover_url} ELSE {})]

\* the /generate response arrives: raise_for_status, then the display block
FrontendDisplay ==
  /\ fe.pc = "generating"
  /\ gen.pc = "done"
  /\ gen.client = "frontend"
  /\ fe' = IF gen.status # 200
           THEN [fe EXCEPT !.pc = "stopped", !.error = "Generation failed"]
           ELSE LET d == DisplayResults(gen.body)
                IN  [fe EXCEPT !.pc = "shown", !.shown = d.shown, !.code = d.code]
  /\ UNCHANGED <<file_storage, upload_dir, output_dir, uuid_count, restarts, up_resp,
                 issued, live, gen>>
  /\ UNCHANGED <<varsFence, varsProd, varsCon>>

\* the script has ended; the page is ready for the next run
FrontendRerun ==
  /\ fe.pc \in {"shown", "stopped"}
  /\ fe' = FeIdle
  /\ gen' = IF gen.client = "frontend" THEN GenIdle ELSE gen
  /\ UNCHANGED <<file_storage, upload_dir, output_dir, uuid_count, restarts, up_resp,
                 issued, live>>
  /\ UNCHANGED <<varsFence, varsProd, varsCon>>

\* ------------------------------------------------------ idle values

InitBackend ==
  /\ file_storage = EmptyStorage
  /\ upload_dir = {}
  /\ output_dir = {}
  /\ uuid_count = 0
  /\ restarts = 0
  /\ up_resp = [files |-> <<>>, status |-> 0, file_ids |-> <<>>]
  /\ issued = EmptyStorage
  /\ live = {}
  /\ gen = GenIdle
  /\ fe = FeIdle

NotAnalyzed == [called |-> FALSE, ok |-> FALSE, status |-> 0, jd |-> None]

NoReply == [text |-> <<>>, open |-> <<>>, body |-> <<>>, close |-> <<>>]

InitFenceIdle == reply = NoReply /\ analyzed = NotAnalyzed

NotCalculated == [called |-> FALSE, value |-> <<>>]

InitProdIdle == nums = <<>> /\ result = NotCalculated

\* no request handled yet; a request leaves the fields it does not carry
\* at these values
NoRequest ==
  [route |-> "none", contractor_id |-> 0, boss_id |-> None, month |-> None,
   hours_by_day |-> <<>>, email |-> None, complete |-> FALSE, status |-> 0,
   body |-> <<>>]

\* an /apply slot with no request in it
IdleSlot == [pc |-> "idle", email |-> None, complete |-> FALSE, status |-> 0]

Slots == 1..MaxInflight

InitConIdle ==
  /\ contractors = EmptyStorage
  /\ bosses = {}
  /\ timesheets = <<>>
  /\ events = EmptyBag
  /\ last = NoRequest
  /\ inflight = [s \in Slots |-> IdleSlot]

\* ------------------------------------- Spec: the backend and its frontend

Init == InitBackend /\ InitFenceIdle /\ InitProdIdle /\ InitConIdle

Next ==
  \/ upload_resume
  \/ GenStart
  \/ GenLookup
  \/ GenRead
  \/ GenParser
  \/ GenLlmResume
  \/ GenLlmJd
  \/ GenLlmLatex
  \/ GenCompile
  \/ GenLlmCover
  \/ GenWriteCover
  \/ GenReturn
  \/ GenFinish
  \/ Restart

Spec == Init /\ [][Next]_vars

\* ----------------------- SpecFront: the frontend as the backend's client

NextFront ==
  \/ FrontendReject
  \/ FrontendUpload
  \/ FrontendGenerate
  \/ FrontendDisplay
  \/ FrontendRerun
  \/ GenLookup
  \/ GenRead
  \/ GenParser
  \/ GenLlmResume
  \/ GenLlmJd
  \/ GenLlmLatex
  \/ GenCompile
  \/ GenLlmCover
  \/ GenWriteCover
  \/ GenReturn
  \/ Restart

SpecFront == Init /\ [][NextFront]_vars


\* ------------------------- SpecFence: analyze_job_description on LLM replies

\* runs of whitespace of length <= MaxWs
WsRuns == UNION {[1..n -> Whitespace] : n \in 0..MaxWs}

\* JSON objects, with and without padding inside the braces
Objects(cs) ==
  {<<"{">> \o w \o <<c>> \o w \o <<"}">> : c \in cs, w \in {<<>>, <<" ">>}}

ValidObjects == Objects(ValidContents)

\* reply bodies: objects that satisfy the schema, objects that do not, the
\* empty object, nothing, and text that is not JSON
Bodies == Objects(Contents) \cup {<<"{", "}">>, <<>>, <<"a">>, <<"{", "a">>}

\* an LLM reply: whitespace, an opening fence or none, whitespace, a body,
\* whitespace, a closing fence or none, whitespace
Replies ==
  {[text |-> l \o o \o m \o b \o n \o c \o t, open |-> o, body |-> b, close |-> c] :
     l \in WsRuns, o \in {<<>>, Fence, FenceJson}, m \in WsRuns, b \in Bodies,
     n \in WsRuns, c \in {<<>>, Fence}, t \in WsRuns}

InitFence ==
  /\ InitBackend /\ InitProdIdle /\ InitConIdle
  /\ reply \in Replies
  /\ analyzed = NotAnalyzed

\* the outcome of analyze_job_description as the caller sees it
Outcome(r) ==
  [called |-> TRUE, ok |-> r.ok, status |-> IF r.ok THEN 200 ELSE r.exc.status,
   jd |-> r.jd]

\* llm.invoke returns the reply
AnalyzeReturned ==
  /\ ~analyzed.called
  /\ analyzed' = Outcome(analyze_job_description([raised |-> FALSE, content |-> reply.text]))
  /\ UNCHANGED <<reply, varsBackend, varsProd, varsCon>>

\* llm.invoke raises
AnalyzeRaised ==
  /\ ~analyzed.called
  /\ analyzed' = Outcome(analyze_job_description([raised |-> TRUE, content |-> <<>>]))
  /\ reply' = NoReply
  /\ UNCHANGED <<varsBackend, varsProd, varsCon>>

NextFence == AnalyzeReturned \/ AnalyzeRaised

SpecFence == InitFence /\ [][NextFence]_vars

\* ----------------------------------------- SpecProd: exclusive_products

RECURSIVE Product(_)
Product(s) == IF s = <<>> THEN 1 ELSE Head(s) * Product(Tail(s))

\* the running prefix products: element i is the product of s[1..i-1]
RECURSIVE PrefixProducts(_)
PrefixProducts(s) ==
  IF s = <<>> THEN <<>>
  ELSE LET front == SubSeq(s, 1, Len(s) - 1)
           p == PrefixProducts(front)
       IN  IF front = <<>> THEN <<1>>
           ELSE Append(p, p[Len(p)] * front[Len(front)])

\* the running suffix products: element i is the product of s[i+1..n]
RECURSIVE SuffixProducts(_)
SuffixProducts(s) ==
  IF s = <<>> THEN <<>>
  ELSE LET rest == Tail(s)
           q == SuffixProducts(rest)
       IN  IF rest = <<>> THEN <<1>>
           ELSE <<q[1] * rest[1]>> \o q

\* an implementation that forgets the suffix pass
ExclusiveProductsPrefixOnly(s) == PrefixProducts(s)

\* an implementation that divides the total product, guarding the zero
ExclusiveProductsByDivision(s) ==
  [i \in 1..Len(s) |-> IF s[i] = 0 THEN 0 ELSE Product(s) \div s[i]]

\* an implementation whose suffix pass starts one element late
ExclusiveProductsLateSuffix(s) ==
  [i \in 1..Len(s) |->
     PrefixProducts(s)[i] * (IF i = 1 /\ Len(s) > 1 THEN 1 ELSE SuffixProducts(s)[i])]

\* calculate_products: result[i] = prefix product before i * suffix product after i
exclusive_products(s) ==
  [i \in 1..Len(s) |-> PrefixProducts(s)[i] * SuffixProducts(s)[i]]

Vals == (0 - MaxAbs)..MaxAbs

Inputs == UNION {[1..n -> Vals] : n \in 0..MaxLen}

InitProd ==
  /\ InitBackend /\ InitFenceIdle /\ InitConIdle
  /\ nums \in Inputs
  /\ result = NotCalculated

CalculateProducts ==
  /\ ~result.called
  /\ result' = [called |-> TRUE, value |-> exclusive_products(nums)]
  /\ UNCHANGED <<nums, varsBackend, varsFence, varsCon>>

NextProd == CalculateProducts

SpecProd == InitProd /\ [][NextProd]_vars

\* -------------------------------- SpecCon: src/array_products.py (Flask)

\* Request values. A JSON field that is absent, null or otherwise falsy is
\* one value: 0 for contractor_id, None for month and email, <<>> for
\* hours_by_day (a dict of day -> hours, modelled as the sequence of hours).
ContractorIds == 0..MaxContractors

BossHeaders == {None, "7", "8"}

Emails == {"ann@x", "bob@x", "boss@x"}

Months == {None, "2024-05"}

HoursByDay == {<<>>, <<8, 4>>}

\* bool(x) for a header or a string field
Truthy(x) == x # None /\ x # ""

RECURSIVE Sum(_)
Sum(s) == IF s = <<>> THEN 0 ELSE Head(s) + Sum(Tail(s))

\* table bosses has no route that writes it: its rows are provisioned out
\* of band before the service starts
InitCon ==
  /\ InitBackend /\ InitFenceIdle /\ InitProdIdle
  /\ contractors = EmptyStorage
  /\ bosses \in {{}, {"boss@x"}}
  /\ timesheets = <<>>
  /\ events = EmptyBag
  /\ last = NoRequest
  /\ inflight = [s \in Slots |-> IdleSlot]

ConUnchanged == UNCHANGED <<bosses, inflight, varsBackend, varsFence, varsProd>>

ContractorEmails == {contractors[c].email : c \in DOMAIN contractors}

\* socketio.emit(name, {'contractor_id': contractor_id})
Emit(name, contractor_id) ==
  events (+) SetToBag({[name |-> name, contractor_id |-> contractor_id]})

\* Contractor.query.filter_by(email=email).first() or Boss.query.filter_by(...)
EmailExists(email) == email \in ContractorEmails \/ email \in bosses

\* Contractor(name, email, org_id): boss_id and pay_rate NULL, approved False
NewContractor(email) ==
  [email |-> email, boss_id |-> None, pay_rate |-> None, approved |-> FALSE]

\* POST /apply; complete = name, org_id and password are all present
apply ==
  \E email \in Emails \cup {None}, complete \in BOOLEAN :
    LET req == [NoRequest EXCEPT !.route = "apply", !.email = email,
                                 !.complete = complete]
        id == Cardinality(DOMAIN contractors) + 1
    IN  \/ /\ ~(complete /\ Truthy(email))
           /\ last' = [req EXCEPT !.status = 400]
           /\ UNCHANGED <<contractors, timesheets, events>>
        \/ /\ complete /\ Truthy(email)
           /\ EmailExists(email)
           /\ last' = [req EXCEPT !.status = 400]
           /\ UNCHANGED <<contractors, timesheets, events>>
        \/ /\ complete /\ Truthy(email)
           /\ ~EmailExists(email)
           /\ id <= MaxContractors
           /\ contractors' = [c \in DOMAIN contractors \cup {id} |->
                                IF c = id THEN NewContractor(email) ELSE contractors[c]]
           /\ events' = Emit("new_contractor", id)
           /\ last' = [req EXCEPT !.status = 201, !.contractor_id = id]
           /\ UNCHANGED timesheets
    /\ ConUnchanged

\* an approval that does not look at the contractor's boss_id
ApproveRejectedNoBossCheck(contractor_id) == contractor_id \notin DOMAIN contractors

\* if not contractor or contractor.boss_id is not None: 400
ApproveRejected(contractor_id) ==
  IF contractor_id \notin DOMAIN contractors THEN TRUE
  ELSE contractors[contractor_id].boss_id # None

\* POST /approve
approve_contractor ==
  \E contractor_id \in ContractorIds, boss_id \in BossHeaders :
    LET req == [NoRequest EXCEPT !.route = "approve", !.contractor_id = contractor_id,
                                 !.boss_id = boss_id]
    IN  \/ /\ ~Truthy(boss_id)
           /\ last' = [req EXCEPT !.status = 401]
           /\ UNCHANGED <<contractors, timesheets, events>>
        \/ /\ Truthy(boss_id)
           /\ ApproveRejected(contractor_id)
           /\ last' = [req EXCEPT !.status = 400]
           /\ UNCHANGED <<contractors, timesheets, events>>
        \/ /\ Truthy(boss_id)
           /\ ~ApproveRejected(contractor_id)
           /\ contractors' = [contractors EXCEPT ![contractor_id].approved = TRUE,
                                                 ![contractor_id].boss_id = boss_id]
           /\ events' = Emit("contractor_approved", contractor_id)
           /\ last' = [req EXCEPT !.status = 200]
           /\ UNCHANGED timesheets
    /\ ConUnchanged

\* a submission check that does not look at contractor.approved
TimesheetRejectedNoApprovalCheck(contractor_id) == contractor_id \notin DOMAIN contractors

\* if not contractor or contractor.approved is False: 400
TimesheetRejected(contractor_id) ==
  IF contractor_id \notin DOMAIN contractors THEN TRUE
  ELSE contractors[contractor_id].approved = FALSE

\* not all([contractor_id, month, hours_by_day])
TimesheetIncomplete(contractor_id, month, hours_by_day) ==
  contractor_id = 0 \/ ~Truthy(month) \/ hours_by_day = <<>>

\* total_pay = total_hours * contractor.pay_rate if contractor.pay_rate else 0
TotalPay(total_hours, pay_rate) ==
  IF pay_rate = None THEN 0 ELSE total_hours * pay_rate

\* POST /timesheets
submit_timesheet ==
  \E contractor_id \in ContractorIds, month \in Months, hours_by_day \in HoursByDay :
    LET req == [NoRequest EXCEPT !.route = "submit_timesheet",
                                 !.contractor_id = contractor_id, !.month = month,
                                 !.hours_by_day = hours_by_day]
    IN  \/ /\ TimesheetIncomplete(contractor_id, month, hours_by_day)
           /\ last' = [req EXCEPT !.status = 400]
           /\ UNCHANGED <<contractors, timesheets, events>>
        \/ /\ ~TimesheetIncomplete(contractor_id, month, hours_by_day)
           /\ TimesheetRejected(contractor_id)
           /\ last' = [req EXCEPT !.status = 400]
           /\ UNCHANGED <<contractors, timesheets, events>>
        \/ /\ ~TimesheetIncomplete(contractor_id, month, hours_by_day)
           /\ ~TimesheetRejected(contractor_id)
           /\ Len(timesheets) < MaxTimesheets
           /\ timesheets' = Append(timesheets,
                [contractor_id |-> contractor_id, month |-> month,
                 hours_by_day |-> hours_by_day,
                 total_pay |-> TotalPay(Sum(hours_by_day),
                                        contractors[contractor_id].pay_rate),
                 image_urls |-> <<>>])
           /\ events' = Emit("timesheet_submitted", contractor_id)
           /\ last' = [req EXCEPT !.status = 201]
           /\ UNCHANGED contractors
    /\ ConUnchanged

\* the attributes of class Timesheet: its columns and the backref of
\* Contractor.timesheets
TimesheetAttributes ==
  {"id", "contractor_id", "month", "hours_by_day", "total_pay", "image_urls",
   "created_at", "contractor"}

\* the JSON object get_timesheets builds for one row
TimesheetJson(t) ==
  [contractor_id |-> t.contractor_id, month |-> t.month,
   total_hours |-> Sum(t.hours_by_day), total_pay |-> t.total_pay,
   image_urls |-> t.image_urls]

\* Timesheet.query.filter_by(boss_id=boss_id).all(); filter_by raises
\* InvalidRequestError for a keyword that is no attribute of the entity
TimesheetsFilterByBoss(boss_id) ==
  IF "boss_id" \notin TimesheetAttributes
  THEN [raised |-> TRUE, rows |-> <<>>]
  ELSE [raised |-> FALSE,
        rows |-> SelectSeq(timesheets, LAMBDA t : t.boss_id = boss_id)]

\* GET /timesheets; an exception that leaves the view is answered 500
get_timesheets ==
  \E boss_id \in BossHeaders :
    LET req == [NoRequest EXCEPT !.route = "get_timesheets", !.boss_id = boss_id]
        q == TimesheetsFilterByBoss(boss_id)
    IN  /\ last' = IF ~Truthy(boss_id) THEN [req EXCEPT !.status = 401]
                   ELSE IF q.raised THEN [req EXCEPT !.status = 500]
                   ELSE [req EXCEPT !.status = 200,
                                    !.body = [k \in 1..Len(q.rows) |->
                                                TimesheetJson(q.rows[k])]]
        /\ UNCHANGED <<contractors, timesheets, events>>
    /\ ConUnchanged

NextCon == apply \/ approve_contractor \/ submit_timesheet \/ get_timesheets

SpecCon == InitCon /\ [][NextCon]_vars

\* ------------------ SpecApply: /apply requests handled at the same time

\* Each request is handled in two steps, the two places where apply talks to
\* the database: the e-mail queries, then the commit of the new row.

ApplyUnchanged == UNCHANGED <<bosses, timesheets, last, varsBackend, varsFence, varsProd>>

\* a column email without unique=True: no INSERT is refused
UniqueViolationNever(email) == email \in {}

\* email = db.Column(..., unique=True): the INSERT of a second row with the
\* e-mail of a row of table contractors fails with IntegrityError
UniqueViolation(email) == email \in ContractorEmails

\* apply up to the e-mail queries: 400, or on to the commit
ApplyRead(s) ==
  /\ inflight[s].pc = "idle"
  /\ \E email \in Emails \cup {None}, complete \in BOOLEAN :
       LET req == [IdleSlot EXCEPT !.email = email, !.complete = complete]
       IN  \/ /\ ~(complete /\ Truthy(email))
              /\ inflight' = [inflight EXCEPT ![s] = [req EXCEPT !.pc = "done",
                                                                !.status = 400]]
           \/ /\ complete /\ Truthy(email)
              /\ EmailExists(email)
              /\ inflight' = [inflight EXCEPT ![s] = [req EXCEPT !.pc = "done",
                                                                !.status = 400]]
           \/ /\ complete /\ Truthy(email)
              /\ ~EmailExists(email)
              /\ inflight' = [inflight EXCEPT ![s] = [req EXCEPT !.pc = "checked"]]
  /\ UNCHANGED <<contractors, events>>
  /\ ApplyUnchanged

\* db.session.add(contractor); db.session.commit(); socketio.emit(...); 201.
\* A commit that the unique constraint refuses raises: 500, no row, no event.
ApplyCommit(s) ==
  /\ inflight[s].pc = "checked"
  /\ LET email == inflight[s].email
         id == Cardinality(DOMAIN contractors) + 1
     IN  \/ /\ UniqueViolation(email)
            /\ inflight' = [inflight EXCEPT ![s].pc = "done", ![s].status = 500]
            /\ UNCHANGED <<contractors, events>>
         \/ /\ ~UniqueViolation(email)
            /\ id <= MaxContractors
            /\ contractors' = [c \in DOMAIN contractors \cup {id} |->
                                 IF c = id THEN NewContractor(email) ELSE contractors[c]]
            /\ events' = Emit("new_contractor", id)
            /\ inflight' = [inflight EXCEPT ![s].pc = "done", ![s].status = 201]
  /\ ApplyUnchanged

\* the response has been sent
ApplyRespond(s) ==
  /\ inflight[s].pc = "done"
  /\ inflight' = [inflight EXCEPT ![s] = IdleSlot]
  /\ UNCHANGED <<contractors, events>>
  /\ ApplyUnchanged

NextApply == \E s \in Slots : ApplyRead(s) \/ ApplyCommit(s) \/ ApplyRespond(s)

SpecApply == InitCon /\ [][NextApply]_vars

\* ================================================================ claims

\* ids an upload response returned before the last restart
Stale == DOMAIN issued \ live

\* C1: every /generate request ends in exactly one of success, 404 or 500;
\* 404 exactly when resume_file_id is not a key of file_storage; a failure of
\* any later step (read, parser, LLM calls, JSON and schema checks, pdflatex,
\* writing the cover letter) is reported as 500, never as success.
C1_Outcomes ==
  gen.pc = "done" =>
    /\ gen.status \in {200, 404, 500}
    /\ (gen.status = 404) <=> (gen.id \notin DOMAIN file_storage)
    /\ (gen.status = 404) <=> (gen.failed = "lookup")
    /\ (gen.failed \notin {None, "lookup"}) => gen.status = 500
    /\ (gen.status = 200) <=> (gen.failed = None)

\* a pdflatex failure has been answered with 500
C1_Witness ==
  gen.pc = "done" /\ gen.failed = "pdflatex" /\ gen.status = 500

C2_Order ==
  /\ IsPrefix(gen.steps, StepOrder)
  /\ gen.failed # None =>
       /\ gen.pc = "done"
       /\ gen.steps # <<>>
       /\ gen.steps[Len(gen.steps)] = gen.failed
  /\ gen.failed = "pdflatex" => "cover_letter.md" \notin gen.written
  /\ "cover_letter.md" \in gen.written => "resume.pdf" \in gen.written
  /\ gen.status = 200 => gen.steps = StepOrder

\* C2: within one /generate request the steps run in the order lookup, read,
\* parser, LLM resume extraction, LLM job analysis, LLM LaTeX, pdflatex, LLM
\* cover letter, write cover letter; each at most once; after a failed step
\* no later step runs (no cover letter is written after a failed pdflatex).
C2_Sequential ==
  /\ []C2_Order
  /\ [][gen.failed # None => (gen'.steps = gen.steps \/ gen' = GenIdle)]_vars
  /\ [][gen'.steps # gen.steps =>
          \/ gen'.steps = <<>>
          \/ /\ Len(gen'.steps) = Len(gen.steps) + 1
             /\ SubSeq(gen'.steps, 1, Len(gen.steps)) = gen.steps]_vars

\* pdflatex has failed after the .tex file was written
C2_Witness ==
  /\ gen.failed = "pdflatex"
  /\ gen.steps = SubSeq(StepOrder, 1, 7)
  /\ "resume.tex" \in gen.written

C3_Storage ==
  /\ \A id \in live :
       /\ id \in DOMAIN file_storage
       /\ file_storage[id] = issued[id]
       /\ issued[id] \in upload_dir
  /\ up_resp.status = 200 =>
       /\ Len(up_resp.file_ids) = Len(up_resp.files)
       /\ \A k \in 1..Len(up_resp.files) :
            issued[up_resp.file_ids[k]] = UploadPath(up_resp.file_ids[k], up_resp.files[k])
       /\ \A j, k \in 1..Len(up_resp.files) :
            j < k => up_resp.file_ids[j] < up_resp.file_ids[k]
  /\ \A id \in Stale :
       /\ id \notin DOMAIN file_storage
       /\ issued[id] \in upload_dir
  /\ (gen.pc \notin {"idle", "lookup"} /\ gen.id \in Stale) => gen.status = 404

\* C3: every file id an upload response returned (one per file, in upload
\* order) is a key of file_storage mapped to the path the file was written
\* to; /generate never changes file_storage; a restart empties it, so an id
\* issued before the restart is answered 404 although its file is on disk.
C3_InMemoryOnly ==
  /\ []C3_Storage
  /\ [][(restarts' = restarts /\ gen' # gen) => file_storage' = file_storage]_vars
  /\ [][restarts' # restarts => file_storage' = EmptyStorage]_vars

\* /generate has answered 404 for an id issued before the restart whose file
\* is still on disk
C3_Witness ==
  /\ gen.pc = "done"
  /\ gen.id \in Stale
  /\ gen.status = 404
  /\ issued[gen.id] \in upload_dir

\* C7: whenever /generate answers successfully the frontend shows both the
\* 'Generated Resume' and the 'Generated Cover Letter' section and displays
\* both fetched documents.
C7_BothShown ==
  (fe.pc = "shown" /\ gen.status = 200) =>
    /\ fe.shown = {"### Generated Resume", "### Generated Cover Letter"}
    /\ fe.code = {"resume.pdf", "cover_letter.md"}


\* the product of every element of s but the i-th
ProductExcept(s, i) == Product(SubSeq(s, 1, i - 1) \o SubSeq(s, i + 1, Len(s)))

\* C4: exclusive_products returns a sequence of the input's length whose
\* element i is the product of all nums[j] with j # i; empty for n = 0 and
\* <<1>> for n = 1.
C4_ProductOfOthers ==
  result.called =>
    /\ Len(result.value) = Len(nums)
    /\ \A i \in 1..Len(nums) : result.value[i] = ProductExcept(nums, i)
    /\ Len(nums) = 0 => result.value = <<>>
    /\ Len(nums) = 1 => result.value = <<1>>

\* the function has been applied to a sequence of three elements other than 0 and 1
C4_Witness ==
  /\ result.called
  /\ Len(nums) = 3
  /\ \A i \in 1..3 : nums[i] \notin {0, 1}

Zeros(s) == {i \in 1..Len(s) : s[i] = 0}

\* C5: with exactly one zero in the input the result is zero everywhere but
\* at the zero's index, which holds the product of the other elements; with
\* two or more zeros the result is zero everywhere.
C5_Zeros ==
  result.called =>
    /\ Cardinality(Zeros(nums)) = 1 =>
         \A i \in 1..Len(nums) :
           result.value[i] = IF nums[i] = 0 THEN ProductExcept(nums, i) ELSE 0
    /\ Cardinality(Zeros(nums)) >= 2 =>
         \A i \in 1..Len(nums) : result.value[i] = 0

\* the function has been applied to a sequence with exactly one zero and a
\* non-zero product of the others
C5_Witness ==
  /\ result.called
  /\ Len(nums) = 3
  /\ Cardinality(Zeros(nums)) = 1
  /\ \E i \in 1..3 : nums[i] = 0 /\ result.value[i] \notin {0, 1}

\* C6: exclusive_products(reverse(nums)) = reverse(exclusive_products(nums))
C6_Reversal ==
  result.called => exclusive_products(Reverse(nums)) = Reverse(result.value)

\* the function has been applied to a sequence that is not a palindrome
C6_Witness ==
  /\ result.called
  /\ Len(nums) = 3
  /\ Reverse(nums) # nums
  /\ Reverse(result.value) # result.value

\* C8: for a reply that is a valid job-description object wrapped in a code
\* fence (opening fence with or without the json tag, closing fence, optional
\* whitespace around each part) analyze_job_description returns the same
\* JobDescription as for the bare object; a reply that is empty after
\* stripping yields HTTP 500.
C8_FenceTransparent ==
  analyzed.called =>
    /\ (reply.open # <<>> /\ reply.close = Fence /\ reply.body \in ValidObjects) =>
         LET bare == analyze_job_description([raised |-> FALSE, content |-> reply.body])
         IN  /\ bare.ok
             /\ analyzed.ok
             /\ analyzed.jd = bare.jd
    /\ reply.body = <<>> => (~analyzed.ok /\ analyzed.status = 500)

\* a padded object inside a json fence, with whitespace around the fences,
\* has been analyzed
C8_Witness ==
  /\ analyzed.called
  /\ analyzed.ok
  /\ reply.open = FenceJson
  /\ reply.close = Fence
  /\ reply.body \in ValidObjects
  /\ Len(reply.text) > Len(reply.open) + Len(reply.body) + Len(reply.close) + 1


\* the contractor the request names exists and is linked to a boss
AlreadyLinked(req) ==
  IF req.contractor_id \in DOMAIN contractors
  THEN contractors[req.contractor_id].boss_id # None
  ELSE FALSE

\* in every state a contractor is approved exactly when its boss_id is set
C9_ApprovedIffLinked ==
  \A c \in DOMAIN contractors :
    contractors[c].approved <=> (contractors[c].boss_id # None)

\* a step that answers 200 to /approve acts on an existing contractor with
\* no boss, and sets approved and boss_id (the caller's) together
C9_ApproveOnlyUnlinked ==
  (last'.route = "approve" /\ last'.status = 200) =>
    LET c == last'.contractor_id
    IN  /\ c \in DOMAIN contractors
        /\ contractors[c].boss_id = None
        /\ last'.boss_id # None
        /\ contractors' = [contractors EXCEPT ![c].approved = TRUE,
                                              ![c].boss_id = last'.boss_id]

\* a contractor that is linked to a boss never changes again, and a row
\* changes only by a successful /approve of that contractor
C9_LinkedIsFrozen ==
  \A c \in DOMAIN contractors :
    /\ c \in DOMAIN contractors'
    /\ contractors[c].boss_id # None => contractors'[c] = contractors[c]
    /\ contractors'[c] # contractors[c] =>
         (last'.route = "approve" /\ last'.status = 200 /\ last'.contractor_id = c)

\* the claim as first stated: as C9 below, but with every further /approve of
\* a linked contractor answered 400
C9_AsStated ==
  /\ []C9_ApprovedIffLinked
  /\ [][C9_ApproveOnlyUnlinked]_vars
  /\ [][C9_LinkedIsFrozen]_vars
  /\ [][(last'.route = "approve" /\ AlreadyLinked(last')) =>
          (last'.status = 400 /\ contractors' = contractors)]_vars

\* C9 (amended): approval is one-shot and irreversible. /approve succeeds only
\* for an existing contractor whose boss_id is unset, setting approved and
\* boss_id together; every further /approve of that contractor is rejected,
\* with 401 when the request carries no boss_id header and with 400 when it
\* does, and leaves it unchanged; a contractor is approved iff boss_id is set.
C9_OneShotApproval ==
  /\ []C9_ApprovedIffLinked
  /\ [][C9_ApproveOnlyUnlinked]_vars
  /\ [][C9_LinkedIsFrozen]_vars
  /\ [][(last'.route = "approve" /\ AlreadyLinked(last')) =>
          /\ last'.status = (IF Truthy(last'.boss_id) THEN 400 ELSE 401)
          /\ contractors' = contractors
          /\ events' = events]_vars

\* a second /approve, by another boss, of a contractor that is linked has
\* been answered 400
C9_Witness ==
  /\ last.route = "approve"
  /\ last.status = 400
  /\ last.contractor_id \in DOMAIN contractors
  /\ contractors[last.contractor_id].approved
  /\ Truthy(last.boss_id)
  /\ contractors[last.contractor_id].boss_id # last.boss_id

\* every stored timesheet belongs to an existing, approved contractor
C10_StoredAreApproved ==
  \A k \in 1..Len(timesheets) :
    /\ timesheets[k].contractor_id \in DOMAIN contractors
    /\ contractors[timesheets[k].contractor_id].approved

\* a timesheet is stored only by a /timesheets request answered 201, for a
\* contractor that exists and is approved when the request is handled
C10_StoredOnlyWhenApproved ==
  timesheets' # timesheets =>
    /\ last'.route = "submit_timesheet"
    /\ last'.status = 201
    /\ Len(timesheets') = Len(timesheets) + 1
    /\ SubSeq(timesheets', 1, Len(timesheets)) = timesheets
    /\ timesheets'[Len(timesheets')].contractor_id = last'.contractor_id
    /\ last'.contractor_id \in DOMAIN contractors
    /\ contractors[last'.contractor_id].approved

\* a /timesheets request for a missing or unapproved contractor, or with a
\* missing field, is answered 400, stores nothing and emits nothing
C10_Rejected ==
  (/\ last'.route = "submit_timesheet"
   /\ \/ TimesheetIncomplete(last'.contractor_id, last'.month, last'.hours_by_day)
      \/ last'.contractor_id \notin DOMAIN contractors
      \/ ~contractors[last'.contractor_id].approved) =>
    /\ last'.status = 400
    /\ timesheets' = timesheets
    /\ events' = events

\* C10: timesheets are accepted only from approved contractors: each stored
\* Timesheet belongs to a contractor that existed and was approved when
\* POST /timesheets was handled; a submission for a missing or unapproved
\* contractor, or with a missing required field, is rejected with 400, stores
\* no Timesheet and emits no 'timesheet_submitted' event.
C10_OnlyApprovedSubmit ==
  /\ []C10_StoredAreApproved
  /\ [][C10_StoredOnlyWhenApproved]_vars
  /\ [][C10_Rejected]_vars

\* a complete submission for an existing, unapproved contractor has been
\* answered 400 while another contractor's timesheet is stored
C10_Witness ==
  /\ last.route = "submit_timesheet"
  /\ last.status = 400
  /\ ~TimesheetIncomplete(last.contractor_id, last.month, last.hours_by_day)
  /\ last.contractor_id \in DOMAIN contractors
  /\ ~contractors[last.contractor_id].approved
  /\ Len(timesheets) > 0


\* the stored timesheets of the contractors linked to a boss, as the JSON
\* objects of the listing
LinkedTimesheets(boss_id) ==
  LET rows == SelectSeq(timesheets,
                LAMBDA t : contractors[t.contractor_id].boss_id = boss_id)
  IN  [k \in 1..Len(rows) |-> TimesheetJson(rows[k])]

\* C11: GET /timesheets with a boss_id header answers 200 with exactly the
\* stored timesheets of the contractors linked to that boss (contractor_id,
\* month, total_hours, total_pay, image_urls each), and 401 without the header.
C11_BossListing ==
  last.route = "get_timesheets" =>
    IF Truthy(last.boss_id)
    THEN last.status = 200 /\ last.body = LinkedTimesheets(last.boss_id)
    ELSE last.status = 401


\* no two contractors share an e-mail, none has the e-mail of a boss
C12_EmailsUnique ==
  /\ \A c, d \in DOMAIN contractors :
       contractors[c].email = contractors[d].email => c = d
  /\ \A c \in DOMAIN contractors : contractors[c].email \notin bosses

\* a request whose e-mail belongs to a contractor or a boss when apply
\* queries for it is answered 400
C12_ExistingRejected ==
  \A s \in Slots :
    (/\ inflight[s].pc = "idle"
     /\ inflight'[s].pc # "idle"
     /\ inflight'[s].email \in ContractorEmails \cup bosses) =>
      (inflight'[s].pc = "done" /\ inflight'[s].status = 400)

\* a request that is answered with an error creates no contractor and emits
\* no event; a request fails at the commit only on an e-mail that a
\* contractor holds by then
C12_RejectedChangesNothing ==
  \A s \in Slots :
    (inflight'[s] # inflight[s] /\ inflight'[s].status \in {400, 500}) =>
      /\ contractors' = contractors
      /\ events' = events
      /\ inflight'[s].status = 500 => inflight'[s].email \in ContractorEmails

\* the table changes only by one new row, unapproved and with no boss, whose
\* e-mail no contractor and no boss holds, with one 'new_contractor' event
C12_CreatedFresh ==
  contractors' # contractors =>
    LET id == Cardinality(DOMAIN contractors) + 1
    IN  /\ DOMAIN contractors' = DOMAIN contractors \cup {id}
        /\ \A c \in DOMAIN contractors : contractors'[c] = contractors[c]
        /\ contractors'[id].approved = FALSE
        /\ contractors'[id].boss_id = None
        /\ contractors'[id].email \notin ContractorEmails \cup bosses
        /\ events' = Emit("new_contractor", id)
        /\ \E s \in Slots : /\ inflight'[s].status = 201
                            /\ inflight[s].pc = "checked"
                            /\ inflight'[s].email = contractors'[id].email

\* C12: POST /apply keeps e-mails unique: a request whose e-mail already
\* belongs to a contractor or a boss is rejected with 400, creates no
\* contractor and emits no 'new_contractor' event; after any sequence and any
\* interleaving of /apply requests no two contractors share an e-mail, and
\* every created contractor starts unapproved with no boss.
C12_UniqueEmails ==
  /\ []C12_EmailsUnique
  /\ [][C12_ExistingRejected]_vars
  /\ [][C12_RejectedChangesNothing]_vars
  /\ [][C12_CreatedFresh]_vars

\* two requests with one e-mail have been handled at the same time (the
\* later commit was refused), and a third with that e-mail was answered 400
C12_Witness ==
  \E s, t \in Slots :
    /\ inflight[s].pc = "done" /\ inflight[s].status = 400 /\ inflight[s].complete
    /\ inflight[t].pc = "done" /\ inflight[t].status = 500
    /\ inflight[s].email = inflight[t].email
    /\ inflight[s].email \in ContractorEmails

====
